---- MODULE Spec2Model ----
(***************************************************************************)
(* The global string cache of the categorical type                        *)
(* (polars-core/src/chunked_array/logical/categorical/stringcache.rs):     *)
(* the activation flag USE_STRING_CACHE, the store                         *)
(* STRING_CACHE = Mutex<SCacheInner{map, uuid}>, the functions             *)
(* toggle_string_cache, reset_string_cache, with_string_cache,             *)
(* StringCache::lock_map, StringCache::clear and the key StrHashGlobal.    *)
(*                                                                         *)
(* Threads call the public functions in any order.  A call that has to     *)
(* take the mutex is split at the acquisition: the thread waits in         *)
(* lock_map until the mutex is free.  The code that runs while a guard    *)
(* from lock_map is held (the categorical builder's find-or-assign) is     *)
(* not part of this file; it is modelled from its contract: look the       *)
(* string up, reuse its code or assign map.len() and insert.               *)
(***************************************************************************)
EXTENDS Integers, FiniteSets, Sequences, TLC

\* ------------------------------------------------------------- bounds
NThreads == 2      \* threads calling into the cache
MaxClock == 1      \* SystemTime::now() reads a value of 0..MaxClock
MaxDepth == 1      \* nesting depth of with_string_cache on one thread

Threads == 1..NThreads

\* The readings of the wall clock, in nanoseconds since UNIX_EPOCH.
Clock == 0..MaxClock

\* The strings the builder interns and the 64-bit hashes a key may carry.
\* The builder's hasher gives both strings the same hash (a collision).
Strs == {"red", "blue"}
Hashes == {1, 2}
HashOf(s) == 1

\* What the closure given to with_string_cache may return.
Results == {"r1", "r2"}

NoRes == "none"

VARIABLES
    flag,      \* USE_STRING_CACHE
    map,       \* STRING_CACHE.0 .map : set of entries [key, val]
    uuid,      \* STRING_CACHE.0 .uuid
    locked,    \* the mutex of STRING_CACHE is held
    poisoned,  \* the mutex of STRING_CACHE is poisoned
    pc,        \* pc[t]: where thread t is
    call,      \* call[t]: the public function whose lock_map()/clear() t runs
    depth,     \* depth[t]: with_string_cache closures t is inside of
    guard,     \* guard[t]: t holds a MutexGuard returned by lock_map()
    view,      \* view[t]: the table as t's pending insert read it
    pend,      \* pend[t]: the string, code and uuid of t's pending insert
    out,       \* out[t]: `out` of with_string_cache: the closure's result,
               \* which with_string_cache returns
    hist,      \* <<string, code>> pairs handed to builders since the last clear
    hasher,    \* the table's hasher: what it makes of each value fed to it
    found,     \* what the last lookup by a bare &str returned
    col        \* a column built earlier: a string, its code, the uuid recorded

vars == <<flag, map, uuid, locked, poisoned, pc, call, depth, guard, view,
          pend, out, hist, hasher, found, col>>

\* What only the lookups by &str and the kept columns read and write.
aux == <<hasher, found, col>>

\* ------------------------------------------------------- StrHashGlobal
StrHashGlobal_new(s, h) == [str |-> s, hash |-> h]

Keys == {StrHashGlobal_new(s, h) : s \in Strs, h \in Hashes}

\* The key the builder makes for a string.
KeyOf(s) == StrHashGlobal_new(s, HashOf(s))

\* An eq that trusts the precomputed hash alone.
KeyEqHashOnly(a, b) == a.hash = b.hash

\* impl PartialEq for StrHashGlobal
KeyEq(a, b) == (a.hash = b.hash) /\ (a.str = b.str)

\* PlHashMap<StrHashGlobal, u32>: the entries are found by key equality.
MapFind(m, k) == {e \in m : KeyEq(e.key, k)}

\* HashMap::contains_key and HashMap::get of a present key.
MapHas(m, k) == MapFind(m, k) # {}

MapGet(m, k) == (CHOOSE e \in MapFind(m, k) : TRUE).val

\* HashMap::insert: an equal key keeps its entry and gets the new value.
MapInsert(m, k, v) ==
    IF ~MapHas(m, k) THEN m \cup {[key |-> k, val |-> v]}
    ELSE {IF KeyEq(e.key, k) THEN [e EXCEPT !.val = v] ELSE e : e \in m}

\* ------------------------------------------- hashing into the table
\* What a value feeds to the table's Hasher.
\* impl Hash for StrHashGlobal: state.write_u64(self.hash), nothing else.
KeyFeed(k) == [u64 |-> <<k.hash>>, bytes |-> <<>>]

\* impl Hash for str (std): the bytes of the string, then 0xff.
StrFeed(s) == [u64 |-> <<>>, bytes |-> <<s, "0xff">>]

Feeds == {KeyFeed(KeyOf(s)) : s \in Strs} \cup {StrFeed(s) : s \in Strs}

\* Two values with the same table hash are probed together; the table
\* looks for a value only among the entries with its table hash.
TableHashes == {0, 1}

\* The hashers a table may have been built with.
Hashers == [Feeds -> TableHashes]

\* The Borrow<str> of a key.
Borrow(k) == k.str

\* HashMap::get::<str>(s): the entries in the place the hasher gives the
\* string's feed whose borrowed string equals s.
MapFindStr(m, s) ==
    {e \in m : /\ hasher[KeyFeed(e.key)] = hasher[StrFeed(s)]
               /\ Borrow(e.key) = s}

\* No lookup by &str has been made; no column is kept.
NoFound == [str |-> "", codes |-> {}]
NoCol == [str |-> "", code |-> 0, uuid |-> 0]

\* No insert is pending.
NoPend == [str |-> "", code |-> 0, uuid |-> 0]

\* --------------------------------------------------------------- Init
InitCache ==
    /\ flag = FALSE
    /\ map = {}
    /\ uuid \in Clock
    /\ locked = FALSE
    /\ poisoned = FALSE
    /\ pc = [t \in Threads |-> "idle"]
    /\ call = [t \in Threads |-> "none"]
    /\ depth = [t \in Threads |-> 0]
    /\ guard = [t \in Threads |-> FALSE]
    /\ view = [t \in Threads |-> {}]
    /\ pend = [t \in Threads |-> NoPend]
    /\ out = [t \in Threads |-> NoRes]
    /\ hist = {}
    /\ found = NoFound
    /\ col = NoCol

\* No operation of Spec reads the hasher: one hasher stands for all.
Init == InitCache /\ hasher = [f \in Feeds |-> 0]

\* The thread runs caller code: it is in no function of this file and in
\* the middle of no insert.
Running(t) == pc[t] = "idle" /\ pend[t] = NoPend

\* A thread holds the mutex through a guard of its own or inside clear().
Holds(t) == guard[t] \/ pc[t] = "clear_held"

\* ------------------------------------------------------------ panics
\* The thread unwinds: a guard it holds is dropped while panicking, which
\* poisons and unlocks the mutex.  No frame of this file catches a panic,
\* so the closures it was inside of are left without toggle(false).
Unwind(t) ==
    /\ pc' = [pc EXCEPT ![t] = "dead"]
    /\ call' = [call EXCEPT ![t] = "none"]
    /\ depth' = [depth EXCEPT ![t] = 0]
    /\ guard' = [guard EXCEPT ![t] = FALSE]
    /\ view' = [view EXCEPT ![t] = {}]
    /\ pend' = [pend EXCEPT ![t] = NoPend]
    /\ out' = [out EXCEPT ![t] = NoRes]
    /\ IF guard[t] THEN locked' = FALSE /\ poisoned' = TRUE
                   ELSE UNCHANGED <<locked, poisoned>>
    /\ UNCHANGED aux
    /\ UNCHANGED <<flag, map, uuid, hist>>

\* The closure of with_string_cache, or the code holding a guard, panics.
Panic(t) ==
    /\ pc[t] = "idle"
    /\ depth[t] > 0 \/ guard[t]
    /\ Unwind(t)

\* ---------------------------------------------------- use_string_cache
\* USE_STRING_CACHE.load(Ordering::Acquire)
use_string_cache == flag

\* ------------------------------------------------- toggle_string_cache
\* A toggle_string_cache(true) that clears the store as the disabling does.
ToggleTrueClears(t) ==
    /\ Running(t)
    /\ flag' = TRUE
    /\ map' = {}
    /\ hist' = {}
    /\ out' = [out EXCEPT ![t] = NoRes]
    /\ UNCHANGED aux
    /\ UNCHANGED <<uuid, locked, poisoned, pc, call, depth, guard, view, pend>>

\* toggle_string_cache(true): the store, and nothing else.
ToggleTrue(t) ==
    /\ Running(t)
    /\ flag' = TRUE
    /\ out' = [out EXCEPT ![t] = NoRes]
    /\ UNCHANGED aux
    /\ UNCHANGED <<map, uuid, locked, poisoned, pc, call, depth, guard, view,
                   pend, hist>>

\* toggle_string_cache(false): the store, then STRING_CACHE.clear() is
\* entered.
ToggleFalse(t) ==
    /\ Running(t)
    /\ flag' = FALSE
    /\ pc' = [pc EXCEPT ![t] = "clear_lock"]
    /\ call' = [call EXCEPT ![t] = "toggle"]
    /\ out' = [out EXCEPT ![t] = NoRes]
    /\ UNCHANGED aux
    /\ UNCHANGED <<map, uuid, locked, poisoned, depth, guard, view, pend, hist>>

\* -------------------------------------------------- reset_string_cache
\* A reset that goes through toggle_string_cache(false).
ResetDisables(t) ==
    /\ Running(t)
    /\ flag' = FALSE
    /\ pc' = [pc EXCEPT ![t] = "clear_lock"]
    /\ call' = [call EXCEPT ![t] = "reset"]
    /\ out' = [out EXCEPT ![t] = NoRes]
    /\ UNCHANGED aux
    /\ UNCHANGED <<map, uuid, locked, poisoned, depth, guard, view, pend, hist>>

Reset(t) ==
    /\ Running(t)
    /\ pc' = [pc EXCEPT ![t] = "clear_lock"]
    /\ call' = [call EXCEPT ![t] = "reset"]
    /\ out' = [out EXCEPT ![t] = NoRes]
    /\ UNCHANGED aux
    /\ UNCHANGED <<flag, map, uuid, locked, poisoned, depth, guard, view, pend,
                   hist>>

\* ---------------------------------------------------------- SCacheInner
\* A default() that keeps the old entries.
SCacheInner_keepsMap(n) == [map |-> map, uuid |-> n]

\* A default() that evicts one entry of the old map at a time.
SCacheInner_evictsOne(n) ==
    [map |-> IF map = {} THEN {} ELSE map \ {CHOOSE e \in map : TRUE},
     uuid |-> n]

\* impl Default for SCacheInner: an empty map, and for uuid the reading n
\* of SystemTime::now().
SCacheInner_default(n) == [map |-> {}, uuid |-> n]

\* ------------------------------------------------ StringCache::lock_map
\* A lock that is granted while a guard is out.
MutexAlwaysFree == TRUE

\* Mutex::lock returns only when no guard is out.
MutexFree == ~locked

\* A clear() that replaces the inner state without waiting for the mutex.
ClearAcquireNoWait(t) ==
    /\ pc[t] = "clear_lock"
    /\ ~poisoned
    /\ locked' = TRUE
    /\ pc' = [pc EXCEPT ![t] = "clear_held"]
    /\ UNCHANGED aux
    /\ UNCHANGED <<flag, map, uuid, poisoned, call, depth, guard, view, pend,
                   out, hist>>

\* A clear() over a re-entrant mutex: the thread holding the guard is let
\* in again.
ClearAcquireReentrant(t) ==
    /\ pc[t] = "clear_lock"
    /\ MutexFree \/ guard[t]
    /\ ~poisoned
    /\ locked' = TRUE
    /\ pc' = [pc EXCEPT ![t] = "clear_held"]
    /\ UNCHANGED aux
    /\ UNCHANGED <<flag, map, uuid, poisoned, call, depth, guard, view, pend,
                   out, hist>>

\* A clear() that takes the guard out of a PoisonError and goes on.
ClearAcquireIgnoresPoison(t) ==
    /\ pc[t] = "clear_lock"
    /\ MutexFree
    /\ locked' = TRUE
    /\ pc' = [pc EXCEPT ![t] = "clear_held"]
    /\ UNCHANGED aux
    /\ UNCHANGED <<flag, map, uuid, poisoned, call, depth, guard, view, pend,
                   out, hist>>

\* lock_map() inside clear(): the guard is granted.
ClearAcquire(t) ==
    /\ pc[t] = "clear_lock"
    /\ MutexFree
    /\ ~poisoned
    /\ locked' = TRUE
    /\ pc' = [pc EXCEPT ![t] = "clear_held"]
    /\ UNCHANGED aux
    /\ UNCHANGED <<flag, map, uuid, poisoned, call, depth, guard, view, pend,
                   out, hist>>

\* lock_map() called for its guard by the categorical builder.
LockCall(t) ==
    /\ Running(t)
    /\ pc' = [pc EXCEPT ![t] = "lock_map"]
    /\ call' = [call EXCEPT ![t] = "lock"]
    /\ out' = [out EXCEPT ![t] = NoRes]
    /\ UNCHANGED aux
    /\ UNCHANGED <<flag, map, uuid, locked, poisoned, depth, guard, view, pend,
                   hist>>

\* A lock_map() that hands out a guard without waiting for the mutex.
LockAcquireNoWait(t) ==
    /\ pc[t] = "lock_map"
    /\ ~poisoned
    /\ locked' = TRUE
    /\ guard' = [guard EXCEPT ![t] = TRUE]
    /\ pc' = [pc EXCEPT ![t] = "idle"]
    /\ call' = [call EXCEPT ![t] = "none"]
    /\ UNCHANGED aux
    /\ UNCHANGED <<flag, map, uuid, poisoned, depth, view, pend, out, hist>>

\* The guard is granted.
LockAcquire(t) ==
    /\ pc[t] = "lock_map"
    /\ MutexFree
    /\ ~poisoned
    /\ locked' = TRUE
    /\ guard' = [guard EXCEPT ![t] = TRUE]
    /\ pc' = [pc EXCEPT ![t] = "idle"]
    /\ call' = [call EXCEPT ![t] = "none"]
    /\ UNCHANGED aux
    /\ UNCHANGED <<flag, map, uuid, poisoned, depth, view, pend, out, hist>>

\* lock() of a poisoned mutex is an Err and .unwrap() panics.
LockPoisoned(t) ==
    /\ pc[t] \in {"clear_lock", "lock_map"}
    /\ MutexFree
    /\ poisoned
    /\ Unwind(t)

\* lock() by the thread that holds the guard never returns: it blocks for
\* ever (no step) or panics.
RelockPanic(t) ==
    /\ pc[t] \in {"clear_lock", "lock_map"}
    /\ guard[t]
    /\ Unwind(t)

\* --------------------------------------------------- StringCache::clear
\* A clear() that resets the flag along with the store.
ClearReplaceDisables(t, n) ==
    /\ pc[t] = "clear_held"
    /\ flag' = FALSE
    /\ map' = SCacheInner_default(n).map
    /\ uuid' = SCacheInner_default(n).uuid
    /\ hist' = {}
    /\ locked' = FALSE
    /\ pc' = [pc EXCEPT ![t] = "idle"]
    /\ call' = [call EXCEPT ![t] = "none"]
    /\ depth' = [depth EXCEPT ![t] =
                   IF call[t] = "scope" THEN depth[t] - 1 ELSE depth[t]]
    /\ UNCHANGED aux
    /\ UNCHANGED <<poisoned, guard, view, pend, out>>

\* *lock = Default::default(); the guard is dropped at the end of clear()
\* and the calling function returns (with_string_cache returns `out`).
ClearReplace(t, n) ==
    /\ pc[t] = "clear_held"
    /\ map' = SCacheInner_default(n).map
    /\ uuid' = SCacheInner_default(n).uuid
    /\ hist' = {}
    /\ locked' = FALSE
    /\ pc' = [pc EXCEPT ![t] = "idle"]
    /\ call' = [call EXCEPT ![t] = "none"]
    /\ depth' = [depth EXCEPT ![t] =
                   IF call[t] = "scope" THEN depth[t] - 1 ELSE depth[t]]
    /\ UNCHANGED aux
    /\ UNCHANGED <<flag, poisoned, guard, view, pend, out>>

\* --------------------------------------------------- with_string_cache
\* toggle_string_cache(true); func() starts.
ScopeEnter(t) ==
    /\ Running(t)
    /\ depth[t] < MaxDepth
    /\ flag' = TRUE
    /\ depth' = [depth EXCEPT ![t] = depth[t] + 1]
    /\ out' = [out EXCEPT ![t] = NoRes]
    /\ UNCHANGED aux
    /\ UNCHANGED <<map, uuid, locked, poisoned, pc, call, guard, view, pend,
                   hist>>

\* A with_string_cache that clears the store and leaves the flag set.
FuncReturnStaysEnabled(t, r) ==
    /\ Running(t)
    /\ depth[t] > 0
    /\ out' = [out EXCEPT ![t] = r]
    /\ pc' = [pc EXCEPT ![t] = "clear_lock"]
    /\ call' = [call EXCEPT ![t] = "scope"]
    /\ UNCHANGED aux
    /\ UNCHANGED <<flag, map, uuid, locked, poisoned, depth, guard, view, pend,
                   hist>>

\* A with_string_cache that counts: the flag is stored false only when no
\* other with_string_cache is running.
FuncReturnCounted(t, r) ==
    /\ Running(t)
    /\ depth[t] > 0
    /\ out' = [out EXCEPT ![t] = r]
    /\ flag' = (depth[t] > 1 \/ \E u \in Threads \ {t} : depth[u] > 0)
    /\ pc' = [pc EXCEPT ![t] = "clear_lock"]
    /\ call' = [call EXCEPT ![t] = "scope"]
    /\ UNCHANGED aux
    /\ UNCHANGED <<map, uuid, locked, poisoned, depth, guard, view, pend, hist>>

\* let out = func() is r; toggle_string_cache(false) stores the flag and
\* enters clear().
FuncReturn(t, r) ==
    /\ Running(t)
    /\ depth[t] > 0
    /\ out' = [out EXCEPT ![t] = r]
    /\ flag' = FALSE
    /\ pc' = [pc EXCEPT ![t] = "clear_lock"]
    /\ call' = [call EXCEPT ![t] = "scope"]
    /\ UNCHANGED aux
    /\ UNCHANGED <<map, uuid, locked, poisoned, depth, guard, view, pend, hist>>

\* ------------------------------------------- the builder, under a guard
\* Look the string up: its code if it has one, else the next code; the
\* column records the store's uuid.
FindBegin(t, s) ==
    /\ Running(t)
    /\ guard[t]
    /\ view' = [view EXCEPT ![t] = map]
    /\ pend' = [pend EXCEPT ![t] =
                  [str |-> s,
                   code |-> IF MapHas(map, KeyOf(s))
                              THEN MapGet(map, KeyOf(s))
                              ELSE Cardinality(map),
                   uuid |-> uuid]]
    /\ out' = [out EXCEPT ![t] = NoRes]
    /\ UNCHANGED aux
    /\ UNCHANGED <<flag, map, uuid, locked, poisoned, pc, call, depth, guard,
                   hist>>

\* Insert the string if the lookup missed; the code goes to the column.
\* The insert updates the table the lookup read: it is one section under
\* the guard, not an atomic operation of the table.
InsertWrite(t) ==
    /\ pc[t] = "idle"
    /\ guard[t]
    /\ pend[t] # NoPend
    /\ map' = IF ~MapHas(view[t], KeyOf(pend[t].str))
                THEN MapInsert(view[t], KeyOf(pend[t].str), pend[t].code)
                ELSE map
    /\ hist' = hist \cup {<<pend[t].str, pend[t].code>>}
    /\ view' = [view EXCEPT ![t] = {}]
    /\ pend' = [pend EXCEPT ![t] = NoPend]
    /\ UNCHANGED aux
    /\ UNCHANGED <<flag, uuid, locked, poisoned, pc, call, depth, guard, out>>

\* "Does this string have a code": HashMap::get with the bare &str.
LookupStr(t, s) ==
    /\ Running(t)
    /\ guard[t]
    /\ found' = [str |-> s, codes |-> {e.val : e \in MapFindStr(map, s)}]
    /\ UNCHANGED <<flag, map, uuid, locked, poisoned, pc, call, depth, guard,
                   view, pend, out, hist, hasher, col>>

\* A column built under the guard is kept by its owner: one of its
\* strings, the code it was given, and the uuid the builder recorded.
KeepColumn(t) ==
    /\ Running(t)
    /\ guard[t]
    /\ \E p \in hist : col' = [str |-> p[1], code |-> p[2], uuid |-> uuid]
    /\ UNCHANGED <<flag, map, uuid, locked, poisoned, pc, call, depth, guard,
                   view, pend, out, hist, hasher, found>>

\* A guard whose drop does not unlock the mutex (a leaked guard).
UnlockLeaks(t) ==
    /\ Running(t)
    /\ guard[t]
    /\ guard' = [guard EXCEPT ![t] = FALSE]
    /\ UNCHANGED aux
    /\ UNCHANGED <<flag, map, uuid, locked, poisoned, pc, call, depth, view,
                   pend, out, hist>>

\* The guard is dropped.
Unlock(t) ==
    /\ Running(t)
    /\ guard[t]
    /\ guard' = [guard EXCEPT ![t] = FALSE]
    /\ locked' = FALSE
    /\ UNCHANGED aux
    /\ UNCHANGED <<flag, map, uuid, poisoned, pc, call, depth, view, pend, out,
                   hist>>

\* ===================================================================
\* Steps, told from the states they join.

\* clear() called from function f replaces the inner state and returns.
ClearStep(t, f) ==
    pc[t] = "clear_held" /\ call[t] = f /\ pc'[t] = "idle"

\* The builder holding the guard writes its pending insert.
InsertStep(t) ==
    guard[t] /\ pend[t] # NoPend /\ pend'[t] = NoPend /\ pc'[t] = "idle"

\* -------------------------------------------------------------- C1
\* C1: when toggle_string_cache(false) returns (called directly or at the
\* end of with_string_cache) the map is empty, whatever was inserted
\* before; no string is found in it; and an empty map stays empty until
\* a builder inserts.
C1_DisableClears ==
    [][ /\ \A t \in Threads :
              (ClearStep(t, "toggle") \/ ClearStep(t, "scope"))
                  => /\ map' = {}
                     /\ \A s \in Strs : ~MapHas(map', KeyOf(s))
        /\ (map = {} /\ map' # {}) => \E t \in Threads : InsertStep(t)
      ]_vars

\* A disable is about to clear a store that holds entries.
C1_Witness ==
    \E t \in Threads :
        pc[t] = "clear_held" /\ call[t] = "toggle" /\ map # {} /\ ~flag

\* -------------------------------------------------------------- C2
\* C2: a with_string_cache frame is left only through the clear() of its
\* own toggle_string_cache(false), which has stored the flag false: also
\* when the closure fails, the failure reaches the caller after the
\* disable and clear.
C2_ScopeAlwaysReleased ==
    [][ \A t \in Threads :
            depth'[t] < depth[t] => ClearStep(t, "scope") /\ map' = {}
      ]_vars

\* -------------------------------------------------------------- C3
\* The closure of t's with_string_cache returns, and toggle(false) stores.
FuncReturnStep(t) ==
    pc[t] = "idle" /\ pc'[t] = "clear_lock" /\ call'[t] = "scope"

\* t is between the closure's return and the return of with_string_cache.
InScopeExit(t) == pc[t] \in {"clear_lock", "clear_held"} /\ call[t] = "scope"

\* The step is t's own: every step of a thread inside clear() moves it.
Moves(t) == pc'[t] # pc[t]

\* C3: with_string_cache sets the flag before the closure runs; when the
\* closure returns r the flag is stored false and r is kept as `out`;
\* from there to the return `out` stays r and no step of the thread
\* changes the flag (only another thread's store does); and the return
\* leaves the map empty, the frame left and `out`, the closure's result,
\* as the value returned.
C3_ScopeCompletes ==
    [][ \A t \in Threads :
          /\ depth'[t] > depth[t] => flag'
          /\ FuncReturnStep(t) => ~flag' /\ out'[t] \in Results
          /\ (InScopeExit(t) /\ pc'[t] # "dead")
                => /\ out'[t] = out[t]
                   /\ out[t] \in Results
                   /\ Moves(t) => flag' = flag
          /\ ClearStep(t, "scope")
                => map' = {} /\ depth'[t] = depth[t] - 1
      ]_vars

\* A with_string_cache has returned "r2" and left the cache disabled and
\* empty.
C3_Witness ==
    \E t \in Threads :
        /\ pc[t] = "idle" /\ depth[t] = 0 /\ out[t] = "r2"
        /\ ~flag /\ map = {}

\* -------------------------------------------------------------- C4
\* C4: every clear leaves a uuid different from the one before it, and
\* no other step changes the uuid.
C4_EpochChangesOnEveryClear ==
    [][ IF \E t \in Threads : pc[t] = "clear_held" /\ pc'[t] = "idle"
          THEN uuid' # uuid
          ELSE uuid' = uuid
      ]_vars

\* -------------------------------------------------------------- C5
\* A step that stores true and moves no thread inside this file: the
\* store of toggle_string_cache(true), called directly or at the start of
\* with_string_cache.
EnableStep ==
    flag' /\ pc' = pc /\ guard' = guard /\ pend' = pend

\* C5: toggle_string_cache(true) leaves the map, with every entry and
\* code in it, and the uuid as they are.
C5_EnableKeepsStore ==
    [][ EnableStep =>
          /\ map' = map
          /\ uuid' = uuid
          /\ \A s \in Strs :
               MapHas(map, KeyOf(s)) =>
                  /\ MapHas(map', KeyOf(s))
                  /\ MapGet(map', KeyOf(s)) = MapGet(map, KeyOf(s))
      ]_vars

\* The cache is enabled, again, over a store that holds entries.
C5_Witness ==
    /\ flag
    /\ Cardinality(map) = 2
    /\ \E t \in Threads : Running(t) /\ depth[t] = 1 /\ ~guard[t]

\* -------------------------------------------------------------- C6
\* t calls reset_string_cache, or is inside it.
ResetCallStep(t) ==
    pc[t] = "idle" /\ pc'[t] = "clear_lock" /\ call'[t] = "reset"

InReset(t) == pc[t] \in {"clear_lock", "clear_held"} /\ call[t] = "reset"

\* C6: no step of reset_string_cache changes the flag, be it true or
\* false, and its clear leaves the map empty and the uuid a reading of
\* the clock.
C6_ResetKeepsFlag ==
    [][ \A t \in Threads :
          /\ ResetCallStep(t) => flag' = flag
          /\ (InReset(t) /\ Moves(t)) => flag' = flag
          /\ ClearStep(t, "reset") => map' = {} /\ uuid' \in Clock
      ]_vars

\* A reset is about to clear a store that holds entries while the cache
\* is enabled.
C6_Witness ==
    \E t \in Threads :
        pc[t] = "clear_held" /\ call[t] = "reset" /\ map # {} /\ flag

\* -------------------------------------------------------------- C7
\* The strings interned since the last clear.
Interned == {p[1] : p \in hist}

\* C7: the map holds exactly one entry for each string the builders have
\* inserted since the last clear, whichever threads inserted them and in
\* whatever order, and each string is found with the code its builder
\* was given.
C7_NoInsertLost ==
    /\ Cardinality(map) = Cardinality(Interned)
    /\ \A p \in hist :
          MapHas(map, KeyOf(p[1])) /\ MapGet(map, KeyOf(p[1])) = p[2]

\* Both strings are in, and a second thread waits in lock_map for the
\* guard the inserting thread holds.
C7_Witness ==
    /\ Cardinality(Interned) = Cardinality(Strs)
    /\ \E t, u \in Threads :
          t # u /\ guard[t] /\ pc[u] = "lock_map" /\ ~guard[u]

\* -------------------------------------------------------------- C8
\* The threads holding the mutex after the step.
HoldersNext == {t \in Threads : guard'[t] \/ pc'[t] = "clear_held"}

\* C8: at most one thread holds the guard, the mutex is held exactly
\* when a thread holds it, and the map and the uuid are written (by an
\* insert or by clear's replacement) and read (by a lookup) only by the
\* thread that holds the guard.
C8_ExclusiveGuard ==
    [][ /\ Cardinality(HoldersNext) <= 1
        /\ locked' <=> HoldersNext # {}
        /\ (map' # map \/ uuid' # uuid) =>
              \E t \in Threads :
                  /\ Holds(t)
                  /\ \A u \in Threads \ {t} : ~Holds(u)
                  /\ InsertStep(t) \/ (pc[t] = "clear_held" /\ pc'[t] = "idle")
        /\ \A t \in Threads :
              (pend'[t] # NoPend /\ pend[t] = NoPend) =>
                  /\ guard[t]
                  /\ \A u \in Threads \ {t} : ~Holds(u)
      ]_vars

\* One thread holds the guard in the middle of an insert and another
\* thread's clear() or lock_map() waits for it.
C8_Witness ==
    \E t, u \in Threads :
        /\ t # u /\ guard[t] /\ pend[t] # NoPend
        /\ pc[u] \in {"clear_lock", "lock_map"} /\ ~guard[u]
        /\ locked

\* -------------------------------------------------------------- C9
\* C9: an insert and a clear never overlap, so the lock order alone
\* decides.  The clear leaves no entry, whatever was inserted before it.
\* An insert writes into the very map and under the very uuid its lookup
\* read, whatever the flag is: its entry is in, with its code, nothing
\* else is dropped and the uuid is kept.
C9_LockOrderDecides ==
    [][ \A t \in Threads :
          /\ (pc[t] = "clear_held" /\ pc'[t] = "idle")
                => map' = {} /\ hist' = {}
          /\ InsertStep(t)
                => /\ view[t] = map
                   /\ pend[t].uuid = uuid
                   /\ uuid' = uuid
                   /\ map \subseteq map'
                   /\ MapHas(map', KeyOf(pend[t].str))
                   /\ MapGet(map', KeyOf(pend[t].str)) = pend[t].code
                   /\ Cardinality(map') <= Cardinality(map) + 1
      ]_vars

\* The race: the flag has been stored false and the clear waits for the
\* mutex while another thread holds the guard in the middle of an insert.
C9_Witness ==
    \E t, u \in Threads :
        /\ t # u
        /\ pc[u] = "clear_lock" /\ call[u] = "toggle" /\ ~guard[u]
        /\ guard[t] /\ pend[t] # NoPend
        /\ ~flag

\* ------------------------------------------------------------- C10
\* C10: two keys are equal exactly when they agree in hash and in
\* string, so that two interned strings with the same precomputed hash
\* have an entry each, found with its own string.
C10_KeyEquality ==
    /\ \A a, b \in Keys : KeyEq(a, b) <=> (a = b)
    /\ \A a, b \in Keys : (a.hash = b.hash /\ a.str # b.str) => ~KeyEq(a, b)
    /\ \A s1, s2 \in Interned :
          (s1 # s2 /\ HashOf(s1) = HashOf(s2)) =>
              /\ MapHas(map, KeyOf(s1)) /\ MapHas(map, KeyOf(s2))
              /\ MapFind(map, KeyOf(s1)) # MapFind(map, KeyOf(s2))
              /\ \A e \in MapFind(map, KeyOf(s1)) : e.key.str = s1
              /\ Cardinality(map) >= 2

\* Two strings with the same precomputed hash are in the map.
C10_Witness ==
    \E e1, e2 \in map :
        e1.key.hash = e2.key.hash /\ e1.key.str # e2.key.str

\* ------------------------------------------------------------- C11
\* C11: a lookup with the bare string of a key that is in the map
\* returns that key's code.
C11_LookupByStrFinds ==
    [][ found' # found =>
          \A e \in map : Borrow(e.key) = found'.str => found'.codes = {e.val}
      ]_vars

\* ------------------------------------------------------------- C12
\* C12: a kept column whose recorded uuid equals the store's uuid agrees
\* with every code handed out under that uuid since: a code the column
\* has and a later builder got stand for the same string.
C12_SameEpochSameCodes ==
    (col # NoCol /\ col.uuid = uuid)
      => \A p \in hist : p[2] = col.code => p[1] = col.str

\* ------------------------------------------------------------- C13
\* C13: between two clears the map is a function from strings to codes
\* and no two strings share a code; the codes handed to builders are the
\* same for the same string and different for different strings, whoever
\* asked, and so is the code a builder is about to hand out.
C13_OneCodePerString ==
    /\ \A e1, e2 \in map :
          (Borrow(e1.key) = Borrow(e2.key) \/ e1.val = e2.val) => e1 = e2
    /\ \A p, q \in hist : (p[1] = q[1]) <=> (p[2] = q[2])
    /\ \A t \in Threads :
          pend[t] # NoPend =>
             \A p \in hist : (p[1] = pend[t].str) <=> (p[2] = pend[t].code)

\* Both strings have a code, and a builder that looked up a string
\* interned before is about to reuse its code.
C13_Witness ==
    /\ Cardinality(map) = Cardinality(Strs)
    /\ \E t \in Threads :
          /\ pend[t] # NoPend
          /\ <<pend[t].str, pend[t].code>> \in hist
          /\ pend[t].code > 0

\* ------------------------------------------------------------- C14
\* C14: clear() replaces the map and the uuid in one step under the
\* guard.  Every entry in the map was inserted since the last clear; the
\* step that generates the uuid leaves no entry behind; an entry leaves
\* the map only in such a step, together with all the others; and the
\* builder that inserts under a guard has read the uuid the store has.
C14_ClearReplacesTogether ==
    [][ /\ \A e \in map : <<Borrow(e.key), e.val>> \in hist
        /\ \A t \in Threads :
              (pc[t] = "clear_held" /\ pc'[t] = "idle")
                 => map' = {} /\ hist' = {} /\ uuid' \in Clock
        /\ (uuid' # uuid) => map' = {}
        /\ (map \ map' # {}) =>
              /\ map' = {}
              /\ \E t \in Threads : pc[t] = "clear_held" /\ pc'[t] = "idle"
        /\ \A t \in Threads :
              InsertStep(t) => pend[t].uuid = uuid /\ map \subseteq map'
      ]_vars

\* A with_string_cache has returned, its clear done, and a builder
\* holding the guard has since inserted one string and looked up a second.
C14_Witness ==
    \E t, u \in Threads :
        /\ t # u
        /\ pc[t] = "idle" /\ depth[t] = 0 /\ out[t] \in Results
        /\ guard[u] /\ pend[u] # NoPend /\ pend[u].code = 1
        /\ Cardinality(map) = 1

\* ------------------------------------------------------------- C15
\* C15: a thread that panics while it holds the guard poisons the mutex,
\* and nothing else does.  From then on the mutex stays poisoned, no
\* thread is granted the guard, the map and the uuid are never read into
\* a lookup or written again, and every thread inside lock_map(), on its
\* own or through clear(), reset_string_cache() or
\* toggle_string_cache(false), leaves it only by panicking.
C15_PoisonIsFatal ==
    [][ /\ \A t \in Threads : (guard[t] /\ pc'[t] = "dead") => poisoned'
        /\ (~poisoned /\ poisoned') =>
              \E t \in Threads : guard[t] /\ pc'[t] = "dead"
        /\ poisoned =>
              /\ poisoned'
              /\ map' = map /\ uuid' = uuid
              /\ \A t \in Threads :
                    /\ ~guard'[t] /\ pc'[t] # "clear_held"
                    /\ pend'[t] = NoPend
                    /\ (pc[t] \in {"clear_lock", "lock_map"} /\ Moves(t))
                          => pc'[t] = "dead"
      ]_vars

\* The mutex is poisoned over a store that holds entries, and a thread is
\* inside the clear() of toggle_string_cache(false).
C15_Witness ==
    /\ poisoned
    /\ map # {}
    /\ \E t \in Threads : pc[t] = "clear_lock" /\ call[t] = "toggle"

\* ------------------------------------------------------------- C16
\* t calls lock_map, is given the guard, looks a string up, inserts or
\* drops the guard.
BuilderStep(t) ==
    \/ pc[t] = "idle" /\ pc'[t] = "lock_map"
    \/ pc[t] = "lock_map" /\ Moves(t)
    \/ pend[t] = NoPend /\ pend'[t] # NoPend
    \/ InsertStep(t)
    \/ guard[t] /\ ~guard'[t]

\* t calls toggle_string_cache(false), directly or at the end of
\* with_string_cache.
DisableStep(t) ==
    pc[t] = "idle" /\ pc'[t] = "clear_lock" /\ call'[t] \in {"toggle", "scope"}

\* C16: use_string_cache() is false at the start.  It becomes true only
\* by a toggle_string_cache(true), called directly or at the start of
\* with_string_cache, and false only by a toggle_string_cache(false); no
\* step of reset_string_cache, of lock_map or of a builder's lookup or
\* insert changes it, and reading it changes nothing.
C16_FlagOnlyByToggle ==
    /\ ~use_string_cache
    /\ [][ /\ (~use_string_cache /\ use_string_cache') =>
                 \E t \in Threads :
                     /\ Running(t) /\ pc'[t] = "idle"
                     /\ depth'[t] = depth[t] + 1 \/ (depth' = depth /\ EnableStep)
           /\ (use_string_cache /\ ~use_string_cache') =>
                 \E t \in Threads : DisableStep(t)
           /\ \A t \in Threads :
                 (ResetCallStep(t) \/ (InReset(t) /\ Moves(t)) \/ BuilderStep(t))
                    => use_string_cache' = use_string_cache
         ]_vars

\* The cache is active while one thread is inside reset_string_cache and
\* another, holding the guard, is between its lookup and its insert.
C16_Witness ==
    /\ use_string_cache
    /\ \E t, u \in Threads :
          /\ t # u
          /\ pc[t] = "clear_lock" /\ call[t] = "reset"
          /\ guard[u] /\ pend[u] # NoPend

\* ------------------------------------------------------------- C17
\* Besides the with_string_cache t is leaving, another one is running:
\* one t is nested in, or one of another thread.
OtherScopeRuns(t) ==
    depth[t] > 1 \/ \E u \in Threads \ {t} : depth[u] > 0

InCall(t) == pc[t] \in {"lock_map", "clear_lock", "clear_held"}

\* No thread calls into the cache while it holds a guard, and no thread
\* panics while it holds one.
HoldersBehave == ~poisoned /\ \A t \in Threads : guard[t] => pc[t] = "idle"

\* C18: with a fair scheduler and a fair mutex, if the threads that take
\* the guard always drop it in the end, do not panic while they hold it
\* and call neither lock_map nor clear (reset_string_cache,
\* toggle_string_cache(false), the end of with_string_cache) while they
\* hold it, then every thread inside lock_map or clear gets out of it and
\* its call returns.
C18_CallsReturn ==
    ( /\ []HoldersBehave
      /\ \A t \in Threads : guard[t] ~> ~guard[t] )
    => \A t \in Threads : InCall(t) ~> pc[t] = "idle"

\* A thread at the end of with_string_cache waits for the mutex another
\* thread holds inside the clear() of its reset, and a third call is in
\* no one's way: nothing is poisoned.
C18_Witness ==
    /\ ~poisoned
    /\ \E t, u \in Threads :
          /\ t # u
          /\ pc[t] = "clear_lock" /\ call[t] = "scope"
          /\ pc[u] = "clear_held" /\ call[u] = "reset"

\* ------------------------------------------------------------- C19
\* t has called clear() (through reset_string_cache,
\* toggle_string_cache(false) or the end of with_string_cache) while it
\* holds the guard lock_map gave it.
RelockingClear(t) == guard[t] /\ pc[t] = "clear_lock"

\* C19: the mutex is not re-entrant.  A thread that calls clear() while
\* it holds the guard makes the call without touching the map or the
\* uuid, and toggle_string_cache(false) has stored the flag false by
\* then; from there the thread stays inside lock_map or panics, the call
\* is never completed, and the map and the uuid stay as they are.
C19_ClearUnderGuardNeverCompletes ==
    [][ \A t \in Threads :
          /\ (guard[t] /\ pc[t] = "idle" /\ pc'[t] = "clear_lock") =>
                /\ map' = map /\ uuid' = uuid
                /\ RelockingClear(t)'
                /\ call'[t] \in {"toggle", "scope"} => ~flag'
          /\ RelockingClear(t) =>
                /\ pc'[t] \in {"clear_lock", "dead"}
                /\ call'[t] = call[t] \/ pc'[t] = "dead"
                /\ map' = map /\ uuid' = uuid
      ]_vars

\* A thread holding the guard has called toggle_string_cache(false): the
\* flag is stored false, the entries are still in the map, and the thread
\* is inside the lock_map of clear().
C19_Witness ==
    \E t \in Threads :
        /\ RelockingClear(t) /\ call[t] = "toggle"
        /\ ~flag /\ map # {}

Next ==
    \E t \in Threads :
       \/ ToggleTrue(t)
       \/ ToggleFalse(t)
       \/ Reset(t)
       \/ ScopeEnter(t)
       \/ \E r \in Results : FuncReturn(t, r)
       \/ LockCall(t)
       \/ LockAcquire(t)
       \/ ClearAcquire(t)
       \/ \E n \in Clock : ClearReplace(t, n)
       \/ LockPoisoned(t)
       \/ RelockPanic(t)
       \/ \E s \in Strs : FindBegin(t, s)
       \/ InsertWrite(t)
       \/ Unlock(t)
       \/ Panic(t)

Spec == Init /\ [][Next]_vars

\* The scheduler is fair and so is the mutex: a thread that can again and
\* again be given the lock is given it, and a thread inside clear() goes
\* on.  Nothing makes the caller's code (closures, guard holders) go on.
SpecFair ==
    /\ Init
    /\ [][Next]_vars
    /\ \A t \in Threads :
          /\ SF_vars(LockAcquire(t))
          /\ SF_vars(ClearAcquire(t))
          /\ WF_vars(\E n \in Clock : ClearReplace(t, n))

\* The cache with lookups by &str, for every hasher the table may have.
InitLookup == InitCache /\ hasher \in Hashers

NextLookup ==
    \/ Next
    \/ \E t \in Threads : \E s \in Strs : LookupStr(t, s)

SpecLookup == InitLookup /\ [][NextLookup]_vars

\* The cache with columns that outlive the clears.
NextColumns ==
    \/ Next
    \/ \E t \in Threads : KeepColumn(t)

SpecColumns == Init /\ [][NextColumns]_vars
====
